---- MODULE Spec2Model ----
(***************************************************************************)
(* The balancing layer of the RTP proxies: BalancingPlugin (backend pool   *)
(* and session admission), BalancingSession (failover and cleanup) and the *)
(* BackendServer entries they share.                                       *)
(*                                                                         *)
(* The repository holds two revisions of the plugin, src/unnamed/part_000  *)
(* (fault detectors made by a FaultDetectorFactory) and                    *)
(* src/unnamed/part_001 (a dialled UDP connection per backend).  The       *)
(* variable rev fixes which one a behaviour runs.  BackendServer and the   *)
(* session's failover routine are not among the sources; they are modelled *)
(* from sections 4.3 and 4.5 of the specification.                         *)
(*                                                                         *)
(* Spec runs every call to its end before the next; SpecStop adds          *)
(* BalancingSession.Start and ends with Stop; SpecRace takes the steps of  *)
(* AddBackendServer, Cleanup and the failover one at a time; SpecLoad      *)
(* computes the load score alone.                                          *)
(***************************************************************************)
EXTENDS Integers, Sequences, FiniteSets, TLC

\* ------------------------------------------------------------------ bounds
MaxObjects == 4        \* backend servers plus sessions built per behaviour
MaxCount == 9          \* sessions of one kind on a server, for the load score

\* ------------------------------------------------------- program constants
num_backup_servers == 1
backup_session_weight == 1     \* 0.1, counted in tenths
Tenths == 10                   \* one primary session, in tenths

\* ------------------------------------------------------------------ values
Revisions == {"part_000", "part_001"}
\* The caller's list of backend addresses, as resolved (main.go: amp_servers,
\* pcp_servers).  The n-th server is added under AddrOf(n): two different
\* addresses, then the first one again.
AddrList == <<[host |-> 1, port |-> 2], [host |-> 2, port |-> 1]>>
AddrOf(n) == AddrList[((n - 1) % Len(AddrList)) + 1]
NoAddr == [host |-> 0, port |-> 0]
\* The transport keys its sessions by client (StopSession(session.Client)),
\* so every admitted session has a client of its own: the k-th is client k.
Clients == 1..(MaxObjects + 1)
ServerIds == 1..MaxObjects
SessionIds == 1..MaxObjects
Kinds == {"detector", "conn", "client"}

NoSession ==
    [status |-> "none", Client |-> 0, PrimaryServer |-> 0,
     BackupServers |-> <<>>, failoverError |-> FALSE]

NoResources == [k \in Kinds |-> "none"]

\* op: the call; id: the server it is about; err: the error it returned;
\* session: the session it returned or is about; res: what it left of the
\* detector, connection and client it created ("none", "open", "closed").
\* errors: the servers whose failures the returned error aggregates.
NoCall ==
    [op |-> "none", id |-> 0, err |-> "nil", session |-> 0, res |-> NoResources,
     errors |-> <<>>]

\* No handleStateChanged call is under way.  server: the server whose DOWN report is handled; session, newServer: the
\* session that is failing over and the server its handler chose.
NoFailover == [server |-> 0, session |-> 0, newServer |-> 0]

VARIABLES
    rev,             \* which revision of the plugin runs
    stateCallback,   \* the caller passes a callback to AddBackendServer
                     \* (main.go: stateChangePrinter) or passes nil
    Server,          \* plugin.Server is set (Start was called)
    panicked,        \* assertStarted panicked: the process is gone
    BackendServers,  \* plugin.BackendServers: sequence of server ids
    numAdds,         \* BackendServer objects built so far
    addResult,       \* per server: "none", "appended" (appended to the pool,
                     \* the pool not yet sorted), "pending" (pool sorted,
                     \* observers not yet registered) or "ok"
    Addr,            \* BackendServer.Addr
    Online,          \* the server's CircuitBreaker state: TRUE is UP
    callbacks,       \* observers registered on the server's client, in order
    Sessions,        \* BackendServer.Sessions
    adding,          \* the AddBackendServer call between line 89 and line 93
    numSessions,     \* sessions admitted so far; a session whose handler
                     \* could not be made is dropped and leaves no trace
    sess,            \* the BalancingSession objects
    last,            \* the call that made the last step, and what it returned
    calls,           \* handler calls made by the last step, in order
    stopped,         \* Stop was called: the PluginServer has shut down
    failover,        \* the handleStateChanged call that is under way, when
                     \* its steps are taken one at a time
    activeSessionCount,  \* the load score taken alone: the number of sessions
    backupSessionCount,  \* a server is primary of, the number it is backup
    loadScore            \* of, and the score computed for them (-1: not yet)

loadVars == <<activeSessionCount, backupSessionCount, loadScore>>

vars ==
    <<rev, stateCallback, Server, panicked, BackendServers, numAdds, addResult, Addr, Online,
      callbacks, Sessions, adding, numSessions, sess, last, calls, stopped, failover,
      loadVars>>

NotAdding == [id |-> 0, callback |-> FALSE]

\* A call of a handler or observer: the function, the session it is made on
\* (0: none), its argument and what it returned ("ok", "err", or the server
\* HandleServerFault chose).
Call(fn, s, arg, ret) == [fn |-> fn, s |-> s, arg |-> arg, ret |-> ret]

\* How many calls of fn on session s the sequence holds.
Count(cs, fn, s) == Cardinality({i \in 1..Len(cs) : cs[i].fn = fn /\ cs[i].s = s})

Range(s) == {s[i] : i \in 1..Len(s)}

Min(a, b) == IF a < b THEN a ELSE b

\* --------------------------------------------------------------- load score
\* Sessions registered on some backend: these are the live ones.
Registered(S) == UNION {S[b] : b \in ServerIds}

\* Mutant: the weight discounts the primary sessions.
LoadScore_WeightOnPrimary(a, b) == a * backup_session_weight + b * Tenths

\* activeSessionCount + backupSessionCount * backup_weight, in tenths.
LoadScore(a, b) == a * Tenths + b * backup_session_weight

\* The load score of server b: its registered sessions are those it is
\* primary of; it is backup of the live sessions that list it.
Load(b, S, ss) ==
    LoadScore(Cardinality(S[b]),
              Cardinality({s \in Registered(S) : b \in Range(ss[s].BackupServers)}))

\* BackendServerSlice.Less: by load score.
Less(x, y, S, ss) == Load(x, S, ss) < Load(y, S, ss)

Swap(seq, i, j) == [seq EXCEPT ![i] = seq[j], ![j] = seq[i]]

\* sort.Sort on at most 6 elements is an insertion sort in every Go release:
\*   for i := a+1; i < b; i++ { for j := i; j > a && Less(j, j-1); j-- { Swap(j, j-1) } }
RECURSIVE Sink(_, _, _, _)
Sink(seq, j, S, ss) ==
    IF j > 1 /\ Less(seq[j], seq[j - 1], S, ss)
    THEN Sink(Swap(seq, j, j - 1), j - 1, S, ss)
    ELSE seq

RECURSIVE InsertionSortFrom(_, _, _, _)
InsertionSortFrom(seq, i, S, ss) ==
    IF i > Len(seq) THEN seq
    ELSE InsertionSortFrom(Sink(seq, i, S, ss), i + 1, S, ss)

SortPool(seq, S, ss) == InsertionSortFrom(seq, 2, S, ss)

\* ------------------------------------------------------------------- Init
\* NewBalancingPlugin: an empty pool, not started.
InitPlugin ==
    /\ rev \in Revisions
    /\ stateCallback \in BOOLEAN
    /\ Server = FALSE
    /\ panicked = FALSE
    /\ BackendServers = <<>>
    /\ numAdds = 0
    /\ addResult = [n \in ServerIds |-> "none"]
    /\ Addr = [n \in ServerIds |-> NoAddr]
    /\ Online = [n \in ServerIds |-> TRUE]
    /\ callbacks = [n \in ServerIds |-> <<>>]
    /\ Sessions = [n \in ServerIds |-> {}]
    /\ adding = NotAdding
    /\ numSessions = 0
    /\ sess = [s \in SessionIds |-> NoSession]
    /\ last = NoCall
    /\ calls = <<>>
    /\ stopped = FALSE
    /\ failover = NoFailover

\* The owner of the plugin gives every AddBackendServer a callback (main.go:
\* stateChangePrinter).
Init ==
    /\ InitPlugin
    /\ stateCallback = TRUE
    /\ activeSessionCount = 0
    /\ backupSessionCount = 0
    /\ loadScore = -1

\* ------------------------------------------------------- BalancingPlugin.Start
\* Called once, when the plugin is added to its PluginServer.
Start ==
    /\ ~panicked
    /\ ~stopped
    /\ ~Server
    /\ Server' = TRUE
    /\ last' = [NoCall EXCEPT !.op = "Start"]
    /\ calls' = <<>>
    /\ UNCHANGED <<loadVars, failover, stopped>>
    /\ UNCHANGED <<rev, stateCallback, panicked, BackendServers, numAdds, addResult, Addr,
                   Online, callbacks, Sessions, adding,
                   numSessions, sess>>

\* ------------------------------------------- BalancingPlugin.AddBackendServer
\* The steps at which the call can fail.  part_001's conversion of
\* conn.LocalAddr() to *net.UDPAddr cannot fail for a connection made by
\* net.DialUDP, so it is no outcome.
Outcomes(r) ==
    IF r = "part_000"
    THEN {"resolve", "detector", "client", "setserver", "ok"}
    ELSE {"resolve", "dial", "client", "setserver", "ok"}

\* What the call leaves of the detector, connection and client it created.
ResourcesAfterAdd(r, outcome) ==
    IF r = "part_000"
    THEN [k \in Kinds |->
            CASE k = "detector" ->
                    IF outcome \in {"client", "setserver"} THEN "closed"
                    ELSE IF outcome = "ok" THEN "open" ELSE "none"
              [] k = "client" ->
                    IF outcome = "setserver" THEN "closed"
                    ELSE IF outcome = "ok" THEN "open" ELSE "none"
              [] OTHER -> "none"]
    ELSE [k \in Kinds |->
            CASE k = "conn" ->
                    IF outcome \in {"client", "setserver", "ok"} THEN "open"
                    ELSE "none"
              [] k = "client" ->
                    IF outcome \in {"setserver", "ok"} THEN "open" ELSE "none"
              [] OTHER -> "none"]

\* Mutant: the server is appended before client.SetServer is checked.
PoolAfterAdd_AppendBeforeSetServer(pool, n, outcome, S, ss) ==
    IF outcome \in {"ok", "setserver"} THEN SortPool(Append(pool, n), S, ss) ELSE pool

\* plugin.BackendServers = append(plugin.BackendServers, server); sort.Sort(...)
PoolAfterAdd(pool, n, outcome, S, ss) ==
    IF outcome = "ok" THEN SortPool(Append(pool, n), S, ss) ELSE pool

\* The observers the call registers: the caller's, keyed by the client, if it
\* gave one, then plugin.serverStateChanged keyed by the server.
CallbacksAfterAdd(callback) ==
    (IF callback THEN <<[fn |-> "callback", key |-> "client"]>> ELSE <<>>)
    \o <<[fn |-> "serverStateChanged", key |-> "server"]>>

\* Lines 61-89 (part_000), 59-88 (part_001): every failing return, or the
\* server appended to the pool and the pool sorted.
AddBackendServer(addr, outcome, callback) ==
    /\ ~panicked
    /\ ~stopped
    /\ adding.id = 0
    /\ numAdds + numSessions < MaxObjects
    /\ outcome \in Outcomes(rev)
    /\ calls' = <<>>
    /\ IF rev = "part_000" /\ ~Server
       THEN /\ panicked' = TRUE
            /\ last' = [NoCall EXCEPT !.op = "AddBackendServer", !.err = "panic"]
            /\ UNCHANGED <<BackendServers, numAdds, addResult, Addr, adding>>
       ELSE LET n == numAdds + 1 IN
            /\ numAdds' = IF outcome = "ok" THEN n ELSE numAdds
            /\ BackendServers' = PoolAfterAdd(BackendServers, n, outcome, Sessions, sess)
            /\ addResult' = [addResult EXCEPT
                                ![n] = IF outcome = "ok" THEN "pending" ELSE @]
            /\ Addr' = [Addr EXCEPT ![n] = IF outcome = "ok" THEN addr ELSE @]
            /\ adding' = IF outcome = "ok" THEN [id |-> n, callback |-> callback]
                         ELSE NotAdding
            /\ last' = [NoCall EXCEPT
                          !.op = "AddBackendServer", !.id = n,
                          !.err = IF outcome = "ok" THEN "pending" ELSE outcome,
                          !.res = ResourcesAfterAdd(rev, outcome)]
            /\ UNCHANGED panicked
    /\ UNCHANGED <<loadVars, failover, stopped>>
    /\ UNCHANGED <<rev, stateCallback, Server, Online, callbacks, Sessions, numSessions, sess>>

\* Lines 90-94 (part_000), 89-94 (part_001): the observers are registered
\* and the call returns nil.
AddBackendServerRegister ==
    /\ ~panicked
    /\ ~stopped
    /\ adding.id # 0
    /\ callbacks' = [callbacks EXCEPT ![adding.id] = CallbacksAfterAdd(adding.callback)]
    /\ addResult' = [addResult EXCEPT ![adding.id] = "ok"]
    /\ adding' = NotAdding
    /\ last' = [NoCall EXCEPT !.op = "AddBackendServer", !.id = adding.id,
                              !.res = ResourcesAfterAdd(rev, "ok")]
    /\ calls' = <<>>
    /\ UNCHANGED <<loadVars, failover, stopped>>
    /\ UNCHANGED <<rev, stateCallback, Server, panicked, BackendServers, numAdds, Addr, Online,
                   Sessions, numSessions, sess>>

\* ------------------------------------------------------- BackendServer
\* BackendServerSlice.pickServer, section 4.3: the UP servers of the pool,
\* ascending by load score (ties in pool order), the first
\* 1 + num_backup_servers of them.
UpServers(pool, up) == SelectSeq(pool, LAMBDA b : up[b])

pickServer(pool, up, S, ss) ==
    LET sorted == SortPool(UpServers(pool, up), S, ss)
    IN  SubSeq(sorted, 1, Min(Len(sorted), 1 + num_backup_servers))

registerSession(S, b, s) == [S EXCEPT ![b] = @ \cup {s}]

unregisterSession(S, b, s) == [S EXCEPT ![b] = @ \ {s}]

\* --------------------------------------------------- BalancingPlugin.NewSession
\* Mutant: the first backup is made the primary.
NewBalancingSession_SwappedPrimary(server, backups, clientAddr) ==
    [status |-> "active", Client |-> clientAddr,
     PrimaryServer |-> IF backups = <<>> THEN server ELSE Head(backups),
     BackupServers |-> IF backups = <<>> THEN backups ELSE <<server>>,
     failoverError |-> FALSE]

\* Lines 107-112: the session object.
NewBalancingSession(server, backups, clientAddr) ==
    [status |-> "active", Client |-> clientAddr, PrimaryServer |-> server,
     BackupServers |-> backups, failoverError |-> FALSE]

\* Mutant: the nil check of the picked server is missing.
NewSessionError_NoNilCheck(picked, handlerOk) ==
    IF handlerOk THEN "nil" ELSE "FailedToCreate"

\* Lines 104-116: the error the call returns.
NewSessionError(picked, handlerOk) ==
    IF picked = <<>> THEN "NoServerAvailable"
    ELSE IF handlerOk THEN "nil" ELSE "FailedToCreate"

\* Mutant: the admitted session is registered on every server.
SessionsAfterNewSession_OnEveryServer(S, server, s, handlerOk) ==
    IF handlerOk THEN [b \in DOMAIN S |-> S[b] \cup {s}] ELSE S

\* Mutant: the admitted session is registered on no server.
SessionsAfterNewSession_NotRegistered(S, server, s, handlerOk) == S

\* Mutant: the session is registered before the handler is asked.
SessionsAfterNewSession_RegisterFirst(S, server, s, handlerOk) ==
    registerSession(S, server, s)

\* Lines 113-119: the session sets after the handler answered.
SessionsAfterNewSession(S, server, s, handlerOk) ==
    IF handlerOk THEN registerSession(S, server, s) ELSE S

\* Called by the PluginServer the plugin was started with, for a request
\* of a client that has no session yet.
NewSession(clientAddr, handlerOk) ==
    /\ ~panicked
    /\ ~stopped
    /\ Server
    /\ clientAddr = numSessions + 1
    /\ LET picked == pickServer(BackendServers, Online, Sessions, sess) IN
       IF picked = <<>>
       THEN /\ last' = [NoCall EXCEPT !.op = "NewSession",
                                      !.err = NewSessionError(picked, handlerOk)]
            /\ calls' = <<>>
            /\ UNCHANGED <<numSessions, sess, Sessions>>
       ELSE LET s == numSessions + 1
                server == Head(picked)
                backups == Tail(picked)
            IN  /\ numAdds + numSessions < MaxObjects
                /\ numSessions' = IF handlerOk THEN s ELSE numSessions
                /\ calls' = <<Call("NewSession", s, NoAddr,
                                    IF handlerOk THEN "ok" ELSE "err")>>
                /\ Sessions' = SessionsAfterNewSession(Sessions, server, s, handlerOk)
                /\ sess' = [sess EXCEPT
                              ![s] = IF handlerOk
                                     THEN NewBalancingSession(server, backups, clientAddr)
                                     ELSE @]
                /\ last' = [NoCall EXCEPT
                              !.op = "NewSession",
                              !.err = NewSessionError(picked, handlerOk),
                              !.session = IF NewSessionError(picked, handlerOk) = "nil"
                                          THEN s ELSE 0]
    /\ UNCHANGED <<loadVars, failover, stopped>>
    /\ UNCHANGED <<rev, stateCallback, Server, panicked, BackendServers, numAdds, addResult,
                   Addr, Online, callbacks, adding>>

\* ------------------------------------------------- BalancingSession failover
\* The arguments of RedirectStream(newHost, newPort) for a server address.
RedirectArgs(addr) == [host |-> addr.host, port |-> addr.port]

RemoveServer(seq, b) == SelectSeq(seq, LAMBDA x : x # b)

\* Mutant: the session stays registered on the old primary.
HandleServerFault_KeepsOldRegistration(st, s, newServer) ==
    IF newServer = 0
    THEN [st EXCEPT
            !.sess = [@ EXCEPT ![s].failoverError = TRUE],
            !.calls = Append(@, Call("HandleServerFault", s, NoAddr, 0))]
    ELSE [sess |-> [st.sess EXCEPT
                      ![s].PrimaryServer = newServer,
                      ![s].BackupServers = RemoveServer(@, newServer)],
          Sessions |-> registerSession(st.Sessions, newServer, s),
          calls |-> st.calls
                    \o <<Call("HandleServerFault", s, NoAddr, newServer),
                         Call("RedirectStream", s, RedirectArgs(Addr[newServer]), "ok")>>]

\* Section 4.5: the session's reaction to its primary being DOWN, on the
\* state st = [sess, Sessions, calls].  newServer is what the handler's
\* HandleServerFault returned; 0 stands for its error.
HandleServerFault(st, s, newServer) ==
    IF newServer = 0
    THEN [st EXCEPT
            !.sess = [@ EXCEPT ![s].failoverError = TRUE],
            !.calls = Append(@, Call("HandleServerFault", s, NoAddr, 0))]
    ELSE [sess |-> [st.sess EXCEPT
                      ![s].PrimaryServer = newServer,
                      ![s].BackupServers = RemoveServer(@, newServer)],
          Sessions |-> registerSession(
                          unregisterSession(st.Sessions, st.sess[s].PrimaryServer, s),
                          newServer, s),
          calls |-> st.calls
                    \o <<Call("HandleServerFault", s, NoAddr, newServer),
                         Call("RedirectStream", s, RedirectArgs(Addr[newServer]), "ok")>>]

\* Mutant: sessions whose failover failed are tried again.
FailoverTargets_RetriesFailed(b, S, ss) ==
    {s \in S[b] : ss[s].PrimaryServer = b}

\* The sessions a DOWN report of b makes fail over: those whose primary it
\* is, unless their failover already failed (Terminated is final).
FailoverTargets(b, S, ss) ==
    {s \in S[b] : ss[s].PrimaryServer = b /\ ~ss[s].failoverError}

SetMin(T) == CHOOSE x \in T : \A y \in T : x <= y

\* BackendServer.handleStateChanged on a DOWN report: each target in turn.
RECURSIVE FailoverAll(_, _, _)
FailoverAll(st, T, choice) ==
    IF T = {} THEN st
    ELSE LET s == SetMin(T)
         IN  FailoverAll(HandleServerFault(st, s, choice[s]), T \ {s}, choice)

\* BalancingPlugin.serverStateChanged(key): runs only if it was registered.
PluginObserves(b) ==
    \E i \in 1..Len(callbacks[b]) : callbacks[b][i].fn = "serverStateChanged"

\* The breaker of b exists and its detector runs: part_000's factory starts
\* the detector before AddBackendServer has the client, part_001 starts the
\* client as the last statement of AddBackendServer.
Running(b) ==
    IF rev = "part_000" THEN addResult[b] \in {"appended", "pending", "ok"}
    ELSE addResult[b] = "ok"

\* The callbacks a breaker invokes on a transition, in registration order.
Notified(b) ==
    [i \in 1..Len(callbacks[b]) |-> Call(callbacks[b][i].fn, 0, NoAddr, "ok")]

\* A health transition of b: the breaker flips and synchronously invokes its
\* observers.
StateChanged(b) ==
    /\ ~panicked
    /\ ~stopped
    /\ Running(b)
    /\ Online' = [Online EXCEPT ![b] = ~@]
    /\ last' = [NoCall EXCEPT !.op = "StateChanged", !.id = b,
                              !.err = IF Online[b] THEN "down" ELSE "nil"]
    /\ IF PluginObserves(b) /\ Online[b]
       THEN LET T == FailoverTargets(b, Sessions, sess)
                candidates == {c \in Range(BackendServers) \ {b} : Online[c]}
            IN  \E choice \in [T -> {0} \cup candidates] :
                  LET st == FailoverAll(
                               [sess |-> sess, Sessions |-> Sessions,
                                calls |-> Notified(b)], T, choice)
                  IN  /\ sess' = st.sess
                      /\ Sessions' = st.Sessions
                      /\ calls' = st.calls
       ELSE /\ calls' = Notified(b)
            /\ UNCHANGED <<sess, Sessions>>
    /\ UNCHANGED <<loadVars, failover, stopped>>
    /\ UNCHANGED <<rev, stateCallback, Server, panicked, BackendServers, numAdds, addResult,
                   Addr, callbacks, adding, numSessions>>

\* ------------------------------------------------- BalancingSession.Cleanup
\* Mutant: Cleanup does not unregister the session.
SessionsAfterCleanup_Forgets(S, session, s) == S

\* Line 169: session.PrimaryServer.unregisterSession(session)
SessionsAfterCleanup(S, session, s) ==
    unregisterSession(S, session.PrimaryServer, s)

\* Mutant: StopRemote is called whatever failoverError holds.
CleanupCalls_AlwaysStop(session, s, stopOk) ==
    <<Call("StopRemote", s, NoAddr, IF stopOk THEN "ok" ELSE "err")>>

\* Lines 170-175: the handler calls Cleanup makes.
CleanupCalls(session, s, stopOk) ==
    IF ~session.failoverError
    THEN <<Call("StopRemote", s, NoAddr, IF stopOk THEN "ok" ELSE "err")>>
    ELSE <<>>

\* Lines 170-175: what Cleanup returns.
CleanupResult(session, stopOk) ==
    IF ~session.failoverError
    THEN (IF stopOk THEN "nil" ELSE "StopRemoteError")
    ELSE "failoverError"

\* Mutant: Cleanup also forgets the session's primary.
SessionAfterCleanup_DropsPrimary(session) ==
    [session EXCEPT !.status = "cleaned", !.PrimaryServer = 0]

\* Lines 168-176: Cleanup assigns no field of the session; the transport
\* is done with it.
SessionAfterCleanup(session) == [session EXCEPT !.status = "cleaned"]

\* Invoked once, when the surrounding transport session ends.
Cleanup(s, stopOk) ==
    /\ ~panicked
    /\ ~stopped
    /\ sess[s].status = "active"
    /\ Sessions' = SessionsAfterCleanup(Sessions, sess[s], s)
    /\ calls' = CleanupCalls(sess[s], s, stopOk)
    /\ last' = [NoCall EXCEPT !.op = "Cleanup", !.session = s,
                              !.err = CleanupResult(sess[s], stopOk)]
    /\ sess' = [sess EXCEPT ![s] = SessionAfterCleanup(@)]
    /\ UNCHANGED <<loadVars, failover, stopped>>
    /\ UNCHANGED <<rev, stateCallback, Server, panicked, BackendServers, numAdds, addResult,
                   Addr, Online, callbacks, adding, numSessions>>

\* --------------------------------------------------- BalancingSession.Start
\* Lines 159-162: called by the PluginServer on a session NewSession
\* returned.  It assigns session.SendingSession, a field no other call of
\* the plugin reads and that is not part of the state here, and does
\* nothing else.
SessionStart(s) ==
    /\ ~panicked
    /\ ~stopped
    /\ sess[s].status = "active"
    /\ last' = [NoCall EXCEPT !.op = "SessionStart", !.session = s]
    /\ calls' = <<>>
    /\ UNCHANGED <<loadVars, failover, stopped>>
    /\ UNCHANGED <<rev, stateCallback, Server, panicked, BackendServers, numAdds, addResult,
                   Addr, Online, callbacks, Sessions, adding, numSessions, sess>>

\* ------------------------------------------------------ BalancingPlugin.Stop
\* Mutant: the loop returns at the first Close that fails.
RECURSIVE CloseCalls_StopAtFirstFailure(_, _)
CloseCalls_StopAtFirstFailure(pool, failing) ==
    IF pool = <<>> THEN <<>>
    ELSE IF Head(pool) \in failing
         THEN <<[fn |-> "Close", s |-> 0, arg |-> NoAddr, ret |-> "err",
                 server |-> Head(pool)]>>
         ELSE <<[fn |-> "Close", s |-> 0, arg |-> NoAddr, ret |-> "ok",
                 server |-> Head(pool)]>>
              \o CloseCalls_StopAtFirstFailure(Tail(pool), failing)

\* Lines 124-125: server.Client.Close() for each server of the pool, in pool
\* order; failing holds the servers whose Close returns an error.
CloseCalls(pool, failing) ==
    [i \in 1..Len(pool) |->
        [fn |-> "Close", s |-> 0, arg |-> NoAddr,
         ret |-> IF pool[i] \in failing THEN "err" ELSE "ok",
         server |-> pool[i]]]

\* Lines 125-127: errors = append(errors, ...) for each Close that failed.
MultiError(cs) ==
    LET failed == SelectSeq(cs, LAMBDA c : c.ret = "err")
    IN  [i \in 1..Len(failed) |-> failed[i].server]

\* Line 129: errors.NilOrError().
NilOrError(errors) == IF errors = <<>> THEN "nil" ELSE "MultiError"

\* Called by the PluginServer when it shuts down; no call follows it.  The
\* owner calls AddBackendServer and shuts down from the same goroutine
\* (main.go), so no AddBackendServer is under way.
Stop(failing) ==
    /\ ~panicked
    /\ ~stopped
    /\ adding.id = 0
    /\ failing \subseteq Range(BackendServers)
    /\ stopped' = TRUE
    /\ calls' = CloseCalls(BackendServers, failing)
    /\ last' = [NoCall EXCEPT !.op = "Stop",
                              !.errors = MultiError(calls'),
                              !.err = NilOrError(MultiError(calls'))]
    /\ UNCHANGED <<loadVars, failover>>
    /\ UNCHANGED <<rev, stateCallback, Server, panicked, BackendServers, numAdds, addResult,
                   Addr, Online, callbacks, Sessions, adding, numSessions, sess>>

Next ==
    \/ Start
    \/ \E outcome \in Outcomes(rev) :
          AddBackendServer(AddrOf(numAdds + 1), outcome, stateCallback)
    \/ AddBackendServerRegister
    \/ \E c \in Clients, handlerOk \in BOOLEAN : NewSession(c, handlerOk)
    \/ \E b \in ServerIds : StateChanged(b)
    \/ \E s \in SessionIds, stopOk \in BOOLEAN : Cleanup(s, stopOk)

Spec == Init /\ [][Next]_vars

\* ------------------------------------------------- the plugin's whole life
\* The same calls and BalancingSession.Start, ended by Stop, in the revision
\* with the detector factory (Stop and the session are the same in both).
InitStop == Init /\ rev = "part_000"

NextStop ==
    \/ Next
    \/ \E s \in SessionIds : SessionStart(s)
    \/ \E failing \in SUBSET Range(BackendServers) : Stop(failing)

SpecStop == InitStop /\ [][NextStop]_vars

\* ---------------------------------------------- the calls, step by step
\* Neither revision holds a lock: AddBackendServer runs in its caller's
\* goroutine, NewSession and Cleanup in the transport's, the plugin's
\* reaction to a health transition in the detector's.  Here
\* AddBackendServer, Cleanup and the reaction to a DOWN report take their
\* steps one at a time, and the other calls run in between.

\* Lines 61-88: every failing return, or the server appended to the pool.
AddBackendServerAppend(addr, outcome, callback) ==
    /\ ~panicked
    /\ ~stopped
    /\ Server
    /\ adding.id = 0
    /\ numAdds + numSessions < MaxObjects
    /\ outcome \in Outcomes(rev)
    /\ calls' = <<>>
    /\ LET n == numAdds + 1 IN
       /\ numAdds' = IF outcome = "ok" THEN n ELSE numAdds
       /\ BackendServers' = IF outcome = "ok" THEN Append(BackendServers, n)
                            ELSE BackendServers
       /\ addResult' = [addResult EXCEPT
                           ![n] = IF outcome = "ok" THEN "appended" ELSE @]
       /\ Addr' = [Addr EXCEPT ![n] = IF outcome = "ok" THEN addr ELSE @]
       /\ adding' = IF outcome = "ok" THEN [id |-> n, callback |-> callback]
                    ELSE NotAdding
       /\ last' = [NoCall EXCEPT
                     !.op = "AddBackendServer", !.id = n,
                     !.err = IF outcome = "ok" THEN "pending" ELSE outcome,
                     !.res = ResourcesAfterAdd(rev, outcome)]
    /\ UNCHANGED <<loadVars, failover, stopped>>
    /\ UNCHANGED <<rev, stateCallback, Server, panicked, Online, callbacks, Sessions,
                   numSessions, sess>>

\* Line 89: sort.Sort(plugin.BackendServers).
AddBackendServerSort ==
    /\ adding.id # 0
    /\ addResult[adding.id] = "appended"
    /\ BackendServers' = SortPool(BackendServers, Sessions, sess)
    /\ addResult' = [addResult EXCEPT ![adding.id] = "pending"]
    /\ last' = [NoCall EXCEPT !.op = "AddBackendServer", !.id = adding.id,
                              !.err = "pending",
                              !.res = ResourcesAfterAdd(rev, "ok")]
    /\ calls' = <<>>
    /\ UNCHANGED <<loadVars, failover, stopped>>
    /\ UNCHANGED <<rev, stateCallback, Server, panicked, numAdds, Addr, Online, callbacks,
                   Sessions, adding, numSessions, sess>>

\* Lines 90-94, once the pool is sorted.
AddBackendServerObserve ==
    /\ adding.id # 0
    /\ addResult[adding.id] = "pending"
    /\ AddBackendServerRegister

\* A health transition of b: the breaker flips and invokes its observers;
\* on a DOWN report the plugin's observer enters handleStateChanged.
StateChangedReport(b) ==
    /\ ~panicked
    /\ ~stopped
    /\ Running(b)
    /\ failover.server = 0
    /\ Online' = [Online EXCEPT ![b] = ~@]
    /\ last' = [NoCall EXCEPT !.op = "StateChanged", !.id = b,
                              !.err = IF Online[b] THEN "down" ELSE "nil"]
    /\ calls' = Notified(b)
    /\ failover' = IF PluginObserves(b) /\ Online[b]
                   THEN [NoFailover EXCEPT !.server = b]
                   ELSE NoFailover
    /\ UNCHANGED <<loadVars, stopped>>
    /\ UNCHANGED <<rev, stateCallback, Server, panicked, BackendServers, numAdds, addResult,
                   Addr, callbacks, Sessions, adding, numSessions, sess>>

\* Section 4.5, step 1 (and 3): handleStateChanged comes to a session that
\* is registered on the server now, and the session asks its handler for a
\* new server; newServer = 0 is the handler's error.
HandleServerFaultCall(s, newServer) ==
    /\ failover.server # 0
    /\ failover.session = 0
    /\ s \in FailoverTargets(failover.server, Sessions, sess)
    /\ newServer \in {0} \cup {c \in Range(BackendServers) \ {failover.server} : Online[c]}
    /\ calls' = <<Call("HandleServerFault", s, NoAddr, newServer)>>
    /\ last' = [NoCall EXCEPT !.op = "HandleServerFault", !.id = failover.server,
                              !.session = s]
    /\ IF newServer = 0
       THEN /\ sess' = [sess EXCEPT ![s].failoverError = TRUE]
            /\ UNCHANGED failover
       ELSE /\ failover' = [failover EXCEPT !.session = s, !.newServer = newServer]
            /\ UNCHANGED sess
    /\ UNCHANGED <<loadVars, stopped>>
    /\ UNCHANGED <<rev, stateCallback, Server, panicked, BackendServers, numAdds, addResult,
                   Addr, Online, callbacks, Sessions, adding, numSessions>>

\* Section 4.5, step 2: the session leaves its primary's session set, takes
\* the new primary, registers there and redirects its stream.
FailoverMove ==
    /\ failover.session # 0
    /\ LET st == HandleServerFault([sess |-> sess, Sessions |-> Sessions, calls |-> <<>>],
                                   failover.session, failover.newServer)
       IN  /\ sess' = st.sess
           /\ Sessions' = st.Sessions
           /\ calls' = Tail(st.calls)
    /\ last' = [NoCall EXCEPT !.op = "Failover", !.id = failover.server,
                              !.session = failover.session]
    /\ failover' = [failover EXCEPT !.session = 0, !.newServer = 0]
    /\ UNCHANGED <<loadVars, stopped>>
    /\ UNCHANGED <<rev, stateCallback, Server, panicked, BackendServers, numAdds, addResult,
                   Addr, Online, callbacks, adding, numSessions>>

\* handleStateChanged has no session left to fail over and returns.
handleStateChangedReturn ==
    /\ failover.server # 0
    /\ failover.session = 0
    /\ FailoverTargets(failover.server, Sessions, sess) = {}
    /\ failover' = NoFailover
    /\ last' = [NoCall EXCEPT !.op = "handleStateChanged", !.id = failover.server]
    /\ calls' = <<>>
    /\ UNCHANGED <<loadVars, stopped>>
    /\ UNCHANGED <<rev, stateCallback, Server, panicked, BackendServers, numAdds, addResult,
                   Addr, Online, callbacks, Sessions, adding, numSessions, sess>>

\* Line 169: session.PrimaryServer.unregisterSession(session).
CleanupUnregister(s) ==
    /\ ~panicked
    /\ ~stopped
    /\ sess[s].status = "active"
    /\ Sessions' = SessionsAfterCleanup(Sessions, sess[s], s)
    /\ sess' = [sess EXCEPT ![s].status = "cleaning"]
    /\ calls' = <<>>
    /\ last' = [NoCall EXCEPT !.op = "Cleanup", !.session = s, !.err = "pending"]
    /\ UNCHANGED <<loadVars, failover, stopped>>
    /\ UNCHANGED <<rev, stateCallback, Server, panicked, BackendServers, numAdds, addResult,
                   Addr, Online, callbacks, adding, numSessions>>

\* Lines 170-175: StopRemote, or the stored failoverError.
CleanupStopRemote(s, stopOk) ==
    /\ sess[s].status = "cleaning"
    /\ calls' = CleanupCalls(sess[s], s, stopOk)
    /\ last' = [NoCall EXCEPT !.op = "Cleanup", !.session = s,
                              !.err = CleanupResult(sess[s], stopOk)]
    /\ sess' = [sess EXCEPT ![s].status = "cleaned"]
    /\ UNCHANGED <<loadVars, failover, stopped>>
    /\ UNCHANGED <<rev, stateCallback, Server, panicked, BackendServers, numAdds, addResult,
                   Addr, Online, callbacks, Sessions, adding, numSessions>>

\* The revision with the detector factory; its owner passes a callback to
\* AddBackendServer, or nil.
InitRace ==
    /\ InitPlugin
    /\ rev = "part_000"
    /\ activeSessionCount = 0
    /\ backupSessionCount = 0
    /\ loadScore = -1

NextRace ==
    \/ Start
    \/ \E outcome \in Outcomes(rev) :
          AddBackendServerAppend(AddrOf(numAdds + 1), outcome, stateCallback)
    \/ AddBackendServerSort
    \/ AddBackendServerObserve
    \/ \E c \in Clients, handlerOk \in BOOLEAN : NewSession(c, handlerOk)
    \/ \E b \in ServerIds : StateChangedReport(b)
    \/ \E s \in SessionIds, newServer \in {0} \cup ServerIds :
          HandleServerFaultCall(s, newServer)
    \/ FailoverMove
    \/ handleStateChangedReturn
    \/ \E s \in SessionIds : CleanupUnregister(s)
    \/ \E s \in SessionIds, stopOk \in BOOLEAN : CleanupStopRemote(s, stopOk)

SpecRace == InitRace /\ [][NextRace]_vars

\* --------------------------------------------------- the load score alone
\* The score of a server with any number of primary and backup sessions.
InitLoad ==
    /\ InitPlugin
    /\ stateCallback = TRUE
    /\ activeSessionCount \in 0..MaxCount
    /\ backupSessionCount \in 0..MaxCount
    /\ loadScore = -1

ComputeLoad ==
    /\ loadScore = -1
    /\ loadScore' = LoadScore(activeSessionCount, backupSessionCount)
    /\ UNCHANGED <<activeSessionCount, backupSessionCount, failover, stopped>>
    /\ UNCHANGED <<rev, stateCallback, Server, panicked, BackendServers, numAdds, addResult,
                   Addr, Online, callbacks, Sessions, adding, numSessions, sess, last,
                   calls>>

NextLoad == ComputeLoad

SpecLoad == InitLoad /\ [][NextLoad]_vars

\* ================================================================ claims
PoolSet == Range(BackendServers)
UpPool == {b \in PoolSet : Online[b]}
LoadNow(b) == Load(b, Sessions, sess)
AddFailed(call) ==
    call.op = "AddBackendServer" /\ call.err \notin {"nil", "pending", "panic"}

C2_NoServerAvailable ==
    [][(last'.op = "NewSession" /\ UpPool = {}) =>
        /\ last'.err = "NoServerAvailable"
        /\ last'.session = 0
        /\ Count(calls', "NewSession", numSessions + 1) = 0
        /\ calls' = <<>>
        /\ Sessions' = Sessions
        /\ sess' = sess
        /\ numSessions' = numSessions
    ]_vars

\* NewSession was refused on a pool that is not empty, all DOWN, with a
\* session still registered.
C2_Witness ==
    /\ last.op = "NewSession" /\ last.err = "NoServerAvailable"
    /\ BackendServers # <<>>
    /\ \E b \in PoolSet : Sessions[b] # {}

\* C3: when the handler's NewSession fails, the call returns an error and no
\* session, the half-built session is in no backend's session set, and the
\* pool and all session sets are what they were.
C3_HandlerFailureRegistersNothing ==
    [][(last'.op = "NewSession"
        /\ \E i \in 1..Len(calls') :
              calls'[i].fn = "NewSession" /\ calls'[i].ret = "err") =>
        /\ last'.err = "FailedToCreate"
        /\ last'.session = 0
        /\ \A b \in ServerIds : (numSessions + 1) \notin Sessions'[b]
        /\ Sessions' = Sessions
        /\ BackendServers' = BackendServers
        /\ sess' = sess
    ]_vars

\* The handler failed for a session that had picked a primary and a backup,
\* beside an admitted session.
C3_Witness ==
    /\ last.op = "NewSession" /\ last.err = "FailedToCreate"
    /\ numSessions = 1
    /\ Cardinality(UpPool) >= 2

\* C4: an AddBackendServer that fails at address resolution, detector (or
\* connection) creation, client creation or SetServer leaves the pool as it
\* was and registers no observer for the backend it failed to add.
C4_FailedAddLeavesPool ==
    [][AddFailed(last') =>
        /\ BackendServers' = BackendServers
        /\ callbacks' = callbacks
        /\ callbacks'[last'.id] = <<>>
        /\ last'.id \notin Range(BackendServers')
        /\ addResult' = addResult
        /\ Sessions' = Sessions
    ]_vars

\* SetServer failed on a plugin that already had a backend.
C4_Witness ==
    /\ AddFailed(last) /\ last.err = "setserver"
    /\ Len(BackendServers) >= 1

\* C5: when AddBackendServer returns an error, no detector, connection or
\* client it created is still open.
C5_FailedAddClosesAll ==
    AddFailed(last) => \A k \in Kinds : last.res[k] # "open"

\* C6: when the pool has been appended to and sorted by a successful
\* AddBackendServer, it holds exactly the servers of the successful calls,
\* ascending by current load score, equal scores in the order of addition.
C6_PoolSortedStable ==
    (last.op = "AddBackendServer" /\ last.err = "pending") =>
        /\ PoolSet = {n \in ServerIds : addResult[n] \in {"pending", "ok"}}
        /\ Len(BackendServers) = Cardinality(PoolSet)
        /\ \A i, j \in 1..Len(BackendServers) :
              i < j =>
                /\ LoadNow(BackendServers[i]) <= LoadNow(BackendServers[j])
                /\ LoadNow(BackendServers[i]) = LoadNow(BackendServers[j])
                      => BackendServers[i] < BackendServers[j]

\* C7: on a transition of a backend to DOWN, each live session whose
\* PrimaryServer it is gets exactly one HandleServerFault call, and every
\* other session gets none.
C7_OneFailoverPerDown ==
    [][\A b \in ServerIds :
        (Online[b] /\ ~Online'[b]) =>
          \A s \in SessionIds :
            (sess[s].status = "active" /\ ~sess[s].failoverError) =>
              Count(calls', "HandleServerFault", s)
                = IF sess[s].PrimaryServer = b THEN 1 ELSE 0
    ]_vars

\* C8: after a failover in which HandleServerFault returned server S, the
\* session's PrimaryServer is S, the session is out of the old primary's
\* session set and in S's, and RedirectStream was called exactly once, with
\* S's host and port.
C8_SuccessfulFailover ==
    [][\A i \in 1..Len(calls') :
        (calls'[i].fn = "HandleServerFault" /\ calls'[i].ret # 0) =>
          LET s == calls'[i].s
              S == calls'[i].ret
              old == sess[s].PrimaryServer
          IN  /\ sess'[s].PrimaryServer = S
              /\ s \notin Sessions'[old]
              /\ s \in Sessions'[S]
              /\ Count(calls', "RedirectStream", s) = 1
              /\ \A j \in 1..Len(calls') :
                    (calls'[j].fn = "RedirectStream" /\ calls'[j].s = s) =>
                      /\ calls'[j].arg.host = Addr[S].host
                      /\ calls'[j].arg.port = Addr[S].port
    ]_vars

\* A DOWN report moved a session to the server its handler chose.
C8_Witness ==
    /\ last.op = "StateChanged" /\ last.err = "down"
    /\ \E i \in 1..Len(calls) :
          /\ calls[i].fn = "HandleServerFault" /\ calls[i].ret # 0
          /\ sess[calls[i].s].PrimaryServer = calls[i].ret
          /\ Sessions[last.id] = {}

\* C9: Cleanup of a session whose failover failed returns the stored
\* failoverError, calls neither StopRemote nor BackgroundStopRemote, and
\* takes the session out of its PrimaryServer's session set.
C9_CleanupAfterFailedFailover ==
    [][(last'.op = "Cleanup" /\ sess[last'.session].failoverError) =>
        LET s == last'.session IN
        /\ last'.err = "failoverError"
        /\ Count(calls', "StopRemote", s) = 0
        /\ Count(calls', "BackgroundStopRemote", s) = 0
        /\ s \notin Sessions'[sess[s].PrimaryServer]
    ]_vars

\* A session whose failover had failed was cleaned up.
C9_Witness ==
    /\ last.op = "Cleanup" /\ last.err = "failoverError"
    /\ sess[last.session].failoverError
    /\ sess[last.session].status = "cleaned"

\* C10: Cleanup of a session that never recorded a failoverError calls
\* StopRemote exactly once, returns what StopRemote returned, and leaves the
\* session in no backend's session set.
C10_CleanupStopsRemote ==
    [][(last'.op = "Cleanup" /\ ~sess[last'.session].failoverError) =>
        LET s == last'.session IN
        /\ Count(calls', "StopRemote", s) = 1
        /\ Len(calls') = 1
        /\ last'.err = IF calls'[1].ret = "ok" THEN "nil" ELSE "StopRemoteError"
        /\ s \in Sessions[sess[s].PrimaryServer]
        /\ \A b \in ServerIds : s \notin Sessions'[b]
    ]_vars

\* A session that had failed over to another server was cleaned up and its
\* StopRemote failed.
C10_Witness ==
    /\ last.op = "Cleanup" /\ last.err = "StopRemoteError"
    /\ ~sess[last.session].failoverError
    /\ sess[last.session].status = "cleaned"
    /\ sess[last.session].BackupServers = <<>>
    /\ Len(BackendServers) >= 2

\* C11: Stop calls Close on the client of every backend of the pool, whatever
\* the earlier Close calls returned; if some of them fail it returns one
\* aggregate error that holds exactly the failures, and if none fails it
\* returns no error.
C11_StopClosesAll ==
    [][last'.op = "Stop" =>
        LET failed == {i \in 1..Len(calls') : calls'[i].ret = "err"} IN
        /\ Len(calls') = Len(BackendServers)
        /\ \A i \in 1..Len(calls') :
              calls'[i].fn = "Close" /\ calls'[i].server = BackendServers[i]
        /\ IF failed = {}
           THEN last'.err = "nil" /\ last'.errors = <<>>
           ELSE /\ last'.err = "MultiError"
                /\ Len(last'.errors) = Cardinality(failed)
                /\ Range(last'.errors) = {calls'[i].server : i \in failed}
    ]_vars

\* Stop on three backends: the first Close failed, the second succeeded, the
\* third failed, and both failures are in the error returned.
C11_Witness ==
    /\ last.op = "Stop" /\ last.err = "MultiError"
    /\ Len(BackendServers) = 3
    /\ calls[1].ret = "err" /\ calls[2].ret = "ok" /\ calls[3].ret = "err"
    /\ Len(last.errors) = 2

Live(s) == sess[s].status = "active"

\* C12: a live session is in a backend's session set if and only if that
\* backend is the session's PrimaryServer or one of its BackupServers.
C12_InSetIffPrimaryOrBackup ==
    \A s \in SessionIds, b \in ServerIds :
        Live(s) =>
            (s \in Sessions[b]
                <=> (b = sess[s].PrimaryServer \/ b \in Range(sess[s].BackupServers)))

\* C12, amended: a live session is in a backend's session set if and only
\* if that backend is the session's PrimaryServer.
C12_InSetIffPrimary ==
    \A s \in SessionIds, b \in ServerIds :
        Live(s) => (s \in Sessions[b] <=> b = sess[s].PrimaryServer)

\* A live session with a backup beside a live session whose failover failed.
C12_Witness ==
    \E s, f \in SessionIds :
        /\ Live(s) /\ sess[s].BackupServers # <<>>
        /\ s \in Sessions[sess[s].PrimaryServer]
        /\ Live(f) /\ sess[f].failoverError
        /\ f \in Sessions[sess[f].PrimaryServer]

\* C13: no two entries of the pool are the backend of the same resolved
\* address.
C13_NoDuplicateBackend ==
    \A i, j \in 1..Len(BackendServers) :
        i # j => Addr[BackendServers[i]] # Addr[BackendServers[j]]

\* C14: the selection of a NewSession never reads a half-updated pool: the
\* pool it reads is the pool before a server was appended or the pool after
\* that append was sorted.
C14_SelectionSeesWholePool ==
    [][last'.op = "NewSession" =>
        \/ adding.id = 0
        \/ addResult[adding.id] # "appended"
        \/ BackendServers = SortPool(BackendServers, Sessions, sess)
    ]_vars

\* C15: once a failed failover has set a session's failoverError, it stays
\* set, the session's PrimaryServer stays what it is, and no later step
\* calls HandleServerFault or RedirectStream for the session.
C15_FailoverErrorSticky ==
    [][\A s \in SessionIds :
        sess[s].failoverError =>
            /\ sess'[s].failoverError
            /\ sess'[s].PrimaryServer = sess[s].PrimaryServer
            /\ Count(calls', "HandleServerFault", s) = 0
            /\ Count(calls', "RedirectStream", s) = 0
    ]_vars

\* The primary of a live session whose failover had failed came back and
\* went DOWN again, another server being UP: no call was made for it.
C15_Witness ==
    /\ last.op = "StateChanged" /\ last.err = "down"
    /\ \E s \in SessionIds :
          /\ Live(s) /\ sess[s].failoverError
          /\ sess[s].PrimaryServer = last.id
          /\ s \in Sessions[last.id]
          /\ Count(calls, "HandleServerFault", s) = 0
    /\ UpPool # {}

C17_ExactlyOneSet ==
    \A s \in SessionIds :
        (Live(s) /\ ~sess[s].failoverError) =>
            {b \in ServerIds : s \in Sessions[b]} = {sess[s].PrimaryServer}

\* A session admitted on server 1 with backup 2 had failed over to server 3
\* and has now failed over again, back to server 1.
C17_Witness ==
    /\ last.op = "StateChanged" /\ last.err = "down" /\ last.id = 3
    /\ \E i \in 1..Len(calls) :
          /\ calls[i].fn = "HandleServerFault" /\ calls[i].ret = 1
          /\ Live(calls[i].s)
          /\ sess[calls[i].s].PrimaryServer = 1
          /\ sess[calls[i].s].BackupServers = <<2>>
          /\ {b \in ServerIds : calls[i].s \in Sessions[b]} = {1}

\* C18: when Cleanup and a failover of the same session have both finished,
\* the session is in no backend's session set, and no RedirectStream or
\* StopRemote is issued for a session that was already cleaned up.
C18_CleanupFailoverRace ==
    [][\A s \in SessionIds :
        /\ (sess'[s].status = "cleaned" /\ failover'.session # s)
              => \A b \in ServerIds : s \notin Sessions'[b]
        /\ sess[s].status = "cleaned"
              => /\ Count(calls', "RedirectStream", s) = 0
                 /\ Count(calls', "StopRemote", s) = 0
    ]_vars

\* C19: every health transition of a backend that is in the pool reaches
\* the plugin's serverStateChanged, once.
C19_NoDroppedTransition ==
    [][\A b \in ServerIds :
        (b \in Range(BackendServers) /\ Online'[b] # Online[b]) =>
            Count(calls', "serverStateChanged", 0) = 1
    ]_vars

\* C20: no step changes the Client of an existing session, and a step
\* changes its PrimaryServer only if it is a failover of the session, on a
\* DOWN report of its primary, in which HandleServerFault returned the new
\* primary.
C20_ClientAndPrimaryFrame ==
    [][\A s \in SessionIds :
        sess[s].status # "none" =>
            /\ sess'[s].Client = sess[s].Client
            /\ sess'[s].PrimaryServer # sess[s].PrimaryServer =>
                  /\ last'.op = "StateChanged"
                  /\ last'.id = sess[s].PrimaryServer
                  /\ Online[sess[s].PrimaryServer]
                  /\ ~Online'[sess[s].PrimaryServer]
                  /\ \E i \in 1..Len(calls') :
                        /\ calls'[i].fn = "HandleServerFault"
                        /\ calls'[i].s = s
                        /\ calls'[i].ret = sess'[s].PrimaryServer
    ]_vars

\* Stop was called with two sessions left as they were: one that had failed
\* over to another server, one whose failover had failed.
C20_Witness ==
    /\ last.op = "Stop"
    /\ \E s, f \in SessionIds :
          /\ Live(s) /\ ~sess[s].failoverError /\ sess[s].Client = s
          /\ ~Online[1] /\ sess[s].PrimaryServer = 2 /\ sess[s].BackupServers = <<>>
          /\ Live(f) /\ sess[f].failoverError /\ sess[f].Client = f
          /\ sess[f].PrimaryServer = 1
====
